---- MODULE Spec2Model ----
(***************************************************************************)
(* Model of src/utils/market_intelligence.py: the MarketIntelligence       *)
(* analyzer (market sizing, growth projection, country breakdown and the   *)
(* report that runs all three and writes three CSV artifacts).             *)
(*                                                                         *)
(* Numbers are exact rationals [num, den] in lowest terms (den > 0); the   *)
(* pandas missing value NaN is [num |-> 0, den |-> 0].  Binary floating    *)
(* point error is not modelled.                                            *)
(***************************************************************************)
EXTENDS Integers, Sequences, FiniteSets, TLC

VARIABLES df, ret, prev, files

vars == <<df, ret, prev, files>>

-----------------------------------------------------------------------------
(* Bounds of the model *)

MaxSizingRows == 3
MaxCountryRows == 2
MaxGrowthRows == 1
MaxReportRows == 2

-----------------------------------------------------------------------------
(* Exact arithmetic *)

Abs(x) == IF x < 0 THEN -x ELSE x

RECURSIVE GCD(_, _)
GCD(a, b) == IF b = 0 THEN a ELSE GCD(b, a % b)

Rat(n, d) == LET g == GCD(Abs(n), d) IN [num |-> n \div g, den |-> d \div g]

FromInt(n) == [num |-> n, den |-> 1]

NaN == [num |-> 0, den |-> 0]

IsNaN(x) == x.den = 0

RatAdd(a, b) == Rat(a.num * b.den + b.num * a.den, a.den * b.den)

RatMul(a, b) == Rat(a.num * b.num, a.den * b.den)

RatDivInt(a, n) == Rat(a.num, a.den * n)

\* x >= k on a column value: a comparison with NaN is False
RatGe(a, b) == ~IsNaN(a) /\ ~IsNaN(b) /\ a.num * b.den >= b.num * a.den

\* int(x) for x >= 0: truncation toward zero
RatTrunc(a) == a.num \div a.den

\* round(x, 2): nearest multiple of 1/100, ties to the even one; NaN stays NaN
RatRound2(a) ==
    IF IsNaN(a) THEN NaN
    ELSE LET n == a.num * 100
             q == n \div a.den
             r == n - q * a.den
             k == IF 2 * r < a.den THEN q
                  ELSE IF 2 * r > a.den THEN q + 1
                  ELSE IF q % 2 = 0 THEN q ELSE q + 1
         IN Rat(k, 100)

-----------------------------------------------------------------------------
(* The partner table (a DataFrame): its columns and its rows *)

RequiredColumns == {"revenue_usd", "kaycore_fit_score", "country", "partnership_priority"}

NA == "NaN"

\* all sequences over S of length at most n
SeqsUpTo(S, n) == UNION {[1..k -> S] : k \in 0..n}

\* the rows of a table that has only the columns cols
Restrict(r, cols) == [c \in cols |-> r[c]]

Frame(cols, rows) == [columns |-> cols, rows |-> rows]

\* Series.sum(): missing values are skipped, the empty sum is 0
RECURSIVE SeriesSum(_)
SeriesSum(s) ==
    IF s = <<>> THEN FromInt(0)
    ELSE IF IsNaN(Head(s)) THEN SeriesSum(Tail(s))
    ELSE RatAdd(Head(s), SeriesSum(Tail(s)))

\* Series.count(): number of values that are not missing
SeriesCount(s) == Len(SelectSeq(s, LAMBDA x : ~IsNaN(x)))

\* Series.mean(): mean of the values that are not missing, NaN if there is none
SeriesMean(s) ==
    IF SeriesCount(s) = 0 THEN NaN ELSE RatDivInt(SeriesSum(s), SeriesCount(s))

\* df[col] of a list of rows
Column(rows, col) == [i \in 1..Len(rows) |-> rows[i][col]]

-----------------------------------------------------------------------------
(* MarketIntelligence.calculate_tam_sam_som *)

SomThreshold == 7

\* variant: the SAM threshold above the SOM threshold
SamThreshold_high == SomThreshold + 1

SamThreshold == 5

RevenueShare == Rat(15, 100)

\* variant: > in place of >=
MeetsThreshold_strict(score, k) == RatGe(score, FromInt(k)) /\ score # FromInt(k)

\* variant: a missing score passes the mask
MeetsThreshold_nan(score, k) == IsNaN(score) \/ RatGe(score, FromInt(k))

\* the row mask  df['kaycore_fit_score'] >= k
MeetsThreshold(score, k) == RatGe(score, FromInt(k))

\* df[df['kaycore_fit_score'] >= k]
FitAtLeast(rows, k) == SelectSeq(rows, LAMBDA r : MeetsThreshold(r.kaycore_fit_score, k))

\* variant: an empty table is rejected
calculate_raises_empty(d) ==
    d.rows = <<>> \/ ~({"revenue_usd", "kaycore_fit_score"} \subseteq d.columns)

calculate_raises(d) == ~({"revenue_usd", "kaycore_fit_score"} \subseteq d.columns)

calculate_tam_sam_som(d) ==
    LET tam == SeriesSum(Column(d.rows, "revenue_usd"))
        sam_partners == FitAtLeast(d.rows, SamThreshold)
        sam == SeriesSum(Column(sam_partners, "revenue_usd"))
        som_partners == FitAtLeast(d.rows, SomThreshold)
        som == RatMul(SeriesSum(Column(som_partners, "revenue_usd")), RevenueShare)
    IN [tam_usd |-> tam,
        sam_usd |-> sam,
        som_usd |-> som,
        tam_partners |-> FromInt(Len(d.rows)),
        sam_partners |-> FromInt(Len(sam_partners)),
        som_partners |-> FromInt(Len(som_partners))]

-----------------------------------------------------------------------------
(* MarketIntelligence.project_revenue_growth *)

DefaultTargetPartners == 50

DefaultAvgDealSize == 50000

\* variant: partner counts rounded to nearest in place of int()
project_revenue_growth_round(target_partners, avg_deal_size) ==
    LET year1_revenue == RatMul(target_partners, avg_deal_size)
        year2_revenue == RatMul(year1_revenue, Rat(15, 10))
        year3_revenue == RatMul(year2_revenue, Rat(13, 10))
    IN [year1_revenue |-> year1_revenue,
        year2_revenue |-> year2_revenue,
        year3_revenue |-> year3_revenue,
        year1_partners |-> target_partners,
        year2_partners |-> FromInt(RatTrunc(RatAdd(RatMul(target_partners, Rat(13, 10)), Rat(1, 2)))),
        year3_partners |-> FromInt(RatTrunc(RatAdd(RatMul(target_partners, Rat(16, 10)), Rat(1, 2))))]

project_revenue_growth(target_partners, avg_deal_size) ==
    LET year1_revenue == RatMul(target_partners, avg_deal_size)
        year2_revenue == RatMul(year1_revenue, Rat(15, 10))
        year3_revenue == RatMul(year2_revenue, Rat(13, 10))
    IN [year1_revenue |-> year1_revenue,
        year2_revenue |-> year2_revenue,
        year3_revenue |-> year3_revenue,
        year1_partners |-> target_partners,
        year2_partners |-> FromInt(RatTrunc(RatMul(target_partners, Rat(13, 10)))),
        year3_partners |-> FromInt(RatTrunc(RatMul(target_partners, Rat(16, 10))))]

-----------------------------------------------------------------------------
(* MarketIntelligence.analyze_by_country *)

\* the country values of the model in ascending order (groupby sorts its keys)
CountryOrder == <<"DE", "US">>

\* groupby('country'): the distinct keys; rows whose key is missing are dropped
GroupKeys(rows) == {rows[i].country : i \in 1..Len(rows)} \ {NA}

analyze_raises(d) ==
    ~({"country", "revenue_usd", "kaycore_fit_score", "partnership_priority"}
        \subseteq d.columns)

\* the lambda of the aggregation: (x == 'High').sum()
HighCount(g) == Len(SelectSeq(g, LAMBDA r : r.partnership_priority = "High"))

\* variant: the aggregated frame is not rounded
Round2_none(x) == x

\* .round(2) of the aggregated frame
Round2(x) == RatRound2(x)

GroupStats(rows, c) ==
    LET g == SelectSeq(rows, LAMBDA r : r.country = c)
        revenue == Column(g, "revenue_usd")
        score == Column(g, "kaycore_fit_score")
    IN [country |-> c,
        total_revenue |-> Round2(SeriesSum(revenue)),
        avg_revenue |-> Round2(SeriesMean(revenue)),
        num_partners |-> FromInt(SeriesCount(revenue)),
        avg_fit_score |-> Round2(SeriesMean(score)),
        high_priority_count |-> FromInt(HighCount(g))]

analyze_by_country(d) ==
    LET keys == SelectSeq(CountryOrder, LAMBDA c : c \in GroupKeys(d.rows))
    IN [i \in 1..Len(keys) |-> GroupStats(d.rows, keys[i])]

-----------------------------------------------------------------------------
(* Output artifacts and MarketIntelligence.generate_report *)

SizingFile == "data/processed/market_sizing.csv"

GrowthFile == "data/processed/growth_projection.csv"

CountryFile == "data/processed/country_analysis.csv"

FileNames == {SizingFile, GrowthFile, CountryFile}

SizingKeys ==
    <<"tam_usd", "sam_usd", "som_usd", "tam_partners", "sam_partners", "som_partners">>

GrowthKeys ==
    <<"year1_revenue", "year2_revenue", "year3_revenue",
      "year1_partners", "year2_partners", "year3_partners">>

CountryColumns ==
    <<"total_revenue", "avg_revenue", "num_partners", "avg_fit_score",
      "high_priority_count">>

\* pd.Series(d).to_csv(): a header line, then one "key,value" line per entry
series_to_csv(d, keys) ==
    <<(<<"", "0">>)>> \o [i \in 1..Len(keys) |-> <<keys[i], d[keys[i]]>>]

\* DataFrame.to_csv() of the country frame: the header line, then one line per
\* country, the index first
frame_to_csv(stats) ==
    <<(<<"country">> \o CountryColumns)>>
      \o [i \in 1..Len(stats) |->
            <<stats[i].country>> \o [j \in 1..Len(CountryColumns) |-> stats[i][CountryColumns[j]]]]

Absent == [state |-> "absent", data |-> <<>>]

\* a file left by something else before the run
Stale == [state |-> "stale", data |-> <<>>]

\* variant: an existing file is not overwritten
Written_keep(fs, name, data) ==
    IF fs[name].state = "absent"
    THEN [fs EXCEPT ![name] = [state |-> "written", data |-> data]]
    ELSE fs

\* a successful to_csv: the file is created or overwritten
Written(fs, name, data) == [fs EXCEPT ![name] = [state |-> "written", data |-> data]]

\* variant: a failing write removes the output files
FailedWrite_rollback(fs, name, truncated) == [n \in DOMAIN fs |-> Absent]

\* a to_csv that raises: the file was not opened (untouched) or was opened for
\* writing and holds an incomplete text
FailedWrite(fs, name, truncated) ==
    IF truncated THEN [fs EXCEPT ![name] = [state |-> "partial", data |-> <<>>]] ELSE fs

\* the outcome of a call: the method, its arguments, the exception raised
\* ("None" when it returned) and the value returned
Raise(op, exc) == [op |-> op, args |-> <<>>, exc |-> exc, value |-> <<>>]

Return(op, value) == [op |-> op, args |-> <<>>, exc |-> "None", value |-> value]

\* the environment of one run: which of the three writes fails (0: none) and
\* what the failing write leaves behind
Faults == [at : 0..3, truncated : BOOLEAN]

\* variant: the sizing artifact is written before the country breakdown is computed
generate_report_eager(d, fs, fault) ==
    IF calculate_raises(d)
    THEN [ret |-> Raise("generate_report", "KeyError"), files |-> fs]
    ELSE
    LET tam_sam_som == calculate_tam_sam_som(d)
        f1 == Written(fs, SizingFile, series_to_csv(tam_sam_som, SizingKeys))
    IN IF fault.at = 1
       THEN [ret |-> Raise("generate_report", "OSError"),
             files |-> FailedWrite(fs, SizingFile, fault.truncated)]
       ELSE IF analyze_raises(d)
       THEN [ret |-> Raise("generate_report", "KeyError"), files |-> f1]
       ELSE
       LET growth_proj == project_revenue_growth(FromInt(DefaultTargetPartners),
                                                 FromInt(DefaultAvgDealSize))
           country_analysis == analyze_by_country(d)
           f2 == Written(f1, GrowthFile, series_to_csv(growth_proj, GrowthKeys))
           f3 == Written(f2, CountryFile, frame_to_csv(country_analysis))
       IN CASE fault.at = 2 ->
                 [ret |-> Raise("generate_report", "OSError"),
                  files |-> FailedWrite(f1, GrowthFile, fault.truncated)]
            [] fault.at = 3 ->
                 [ret |-> Raise("generate_report", "OSError"),
                  files |-> FailedWrite(f2, CountryFile, fault.truncated)]
            [] OTHER ->
                 [ret |-> Return("generate_report",
                                 [market_sizing |-> tam_sam_som,
                                  growth_projection |-> growth_proj,
                                  country_breakdown |-> country_analysis]),
                  files |-> f3]

generate_report(d, fs, fault) ==
    IF calculate_raises(d) \/ analyze_raises(d)
    THEN [ret |-> Raise("generate_report", "KeyError"), files |-> fs]
    ELSE
    LET tam_sam_som == calculate_tam_sam_som(d)
        growth_proj == project_revenue_growth(FromInt(DefaultTargetPartners),
                                              FromInt(DefaultAvgDealSize))
        country_analysis == analyze_by_country(d)
        report == [market_sizing |-> tam_sam_som,
                   growth_projection |-> growth_proj,
                   country_breakdown |-> country_analysis]
        f1 == Written(fs, SizingFile, series_to_csv(tam_sam_som, SizingKeys))
        f2 == Written(f1, GrowthFile, series_to_csv(growth_proj, GrowthKeys))
        f3 == Written(f2, CountryFile, frame_to_csv(country_analysis))
    IN CASE fault.at = 1 ->
              [ret |-> Raise("generate_report", "OSError"),
               files |-> FailedWrite(fs, SizingFile, fault.truncated)]
         [] fault.at = 2 ->
              [ret |-> Raise("generate_report", "OSError"),
               files |-> FailedWrite(f1, GrowthFile, fault.truncated)]
         [] fault.at = 3 ->
              [ret |-> Raise("generate_report", "OSError"),
               files |-> FailedWrite(f2, CountryFile, fault.truncated)]
         [] OTHER ->
              [ret |-> Return("generate_report", report), files |-> f3]

-----------------------------------------------------------------------------
(* The calls a client makes on one analyzer. ret is what the last call        *)
(* returned or raised, prev what the call before it did.                     *)

NoCall == [op |-> "none", args |-> <<>>, exc |-> "None", value |-> <<>>]

CalculateTamSamSom ==
    /\ ret' = IF calculate_raises(df)
              THEN Raise("calculate_tam_sam_som", "KeyError")
              ELSE Return("calculate_tam_sam_som", calculate_tam_sam_som(df))
    /\ prev' = ret
    /\ UNCHANGED <<df, files>>

ProjectRevenueGrowth(target_partners, avg_deal_size) ==
    /\ ret' = [Return("project_revenue_growth",
                       project_revenue_growth(target_partners, avg_deal_size))
                  EXCEPT !.args = <<target_partners, avg_deal_size>>]
    /\ prev' = ret
    /\ UNCHANGED <<df, files>>

AnalyzeByCountry ==
    /\ ret' = IF analyze_raises(df)
              THEN Raise("analyze_by_country", "KeyError")
              ELSE Return("analyze_by_country", analyze_by_country(df))
    /\ prev' = ret
    /\ UNCHANGED <<df, files>>

\* variant: the run drops the first row of the table in place
GenerateReport_inplace ==
    \E fault \in Faults :
        LET run == generate_report(df, files, fault)
        IN /\ ret' = run.ret
           /\ files' = run.files
           /\ prev' = ret
           /\ df' = [df EXCEPT !.rows = IF @ = <<>> THEN @ ELSE Tail(@)]

GenerateReport ==
    \E fault \in Faults :
        LET run == generate_report(df, files, fault)
        IN /\ ret' = run.ret
           /\ files' = run.files
           /\ prev' = ret
           /\ UNCHANGED df

-----------------------------------------------------------------------------
(* Specifications *)

\* tables with all four columns, rows drawn from a set of rows
Tables(rowset, n) == {Frame(RequiredColumns, rows) : rows \in SeqsUpTo(rowset, n)}

\* tables whose header has only the columns cols
TablesWith(cols, rowset, n) ==
    {Frame(cols, rows) : rows \in SeqsUpTo({Restrict(r, cols) : r \in rowset}, n)}

NoFiles == [n \in FileNames |-> Absent]

SizingRows ==
    [revenue_usd : {FromInt(-100), FromInt(100), FromInt(200)},
     kaycore_fit_score : {NaN, FromInt(4), FromInt(5), FromInt(7), FromInt(8)},
     country : {"US"},
     partnership_priority : {"High"}]

CountryRows ==
    [revenue_usd : {NaN, FromInt(100), FromInt(200), Rat(10001, 100)},
     kaycore_fit_score : {NaN, FromInt(4), FromInt(6)},
     country : {"US", "DE", NA},
     partnership_priority : {"High", "Low"}]

GrowthRows ==
    [revenue_usd : {FromInt(100), FromInt(200)},
     kaycore_fit_score : {FromInt(4), FromInt(8)},
     country : {"US", "DE"},
     partnership_priority : {"High"}]

TargetPartnerValues == {FromInt(1), FromInt(3), FromInt(DefaultTargetPartners), Rat(5, 2)}

AvgDealSizeValues == {FromInt(1), FromInt(DefaultAvgDealSize), Rat(1, 2)}

ReportRows ==
    [revenue_usd : {FromInt(100)},
     kaycore_fit_score : {FromInt(4), FromInt(8)},
     country : {"US", "DE"},
     partnership_priority : {"High", "Low"}]

InitWith(tables, fileinits) ==
    /\ df \in tables
    /\ files \in fileinits
    /\ ret = NoCall
    /\ prev = NoCall

\* market sizing (and the country breakdown) called on tables of revenue and score
InitSizing == InitWith(Tables(SizingRows, MaxSizingRows), {NoFiles})

NextSizing == CalculateTamSamSom \/ AnalyzeByCountry

SpecSizing == InitSizing /\ [][NextSizing]_vars

\* the country breakdown called on tables that vary in every column
InitCountry == InitWith(Tables(CountryRows, MaxCountryRows), {NoFiles})

NextCountry == AnalyzeByCountry

SpecCountry == InitCountry /\ [][NextCountry]_vars

\* the growth projection called with arguments from small sets
InitGrowth == InitWith(Tables(GrowthRows, MaxGrowthRows), {NoFiles})

NextGrowth ==
    \E tp \in TargetPartnerValues, ads \in AvgDealSizeValues : ProjectRevenueGrowth(tp, ads)

SpecGrowth == InitGrowth /\ [][NextGrowth]_vars

\* the report, run any number of times on a table whose header may lack columns,
\* with output files that exist or not beforehand
Init ==
    InitWith(UNION {TablesWith(cols, ReportRows, MaxReportRows) : cols \in SUBSET RequiredColumns},
             {NoFiles, [n \in FileNames |-> Stale]})

Next == GenerateReport

Spec == Init /\ [][Next]_vars

-----------------------------------------------------------------------------
(* Properties: market sizing (checked under SpecSizing) *)

Rows == df.rows

AllRows == 1..Len(Rows)

Present(x) == x.den > 0

Leq(a, b) == a.num * b.den <= b.num * a.den

\* the rows whose fit score is present and at least k
ScoredAtLeast(k) ==
    {i \in AllRows : /\ Present(Rows[i].kaycore_fit_score)
                     /\ Rows[i].kaycore_fit_score.num >= k * Rows[i].kaycore_fit_score.den}

\* the sum of the present revenue_usd values of the rows I
RECURSIVE RevenueOver(_)
RevenueOver(I) ==
    IF I = {} THEN FromInt(0)
    ELSE LET i == CHOOSE j \in I : TRUE
             rest == RevenueOver(I \ {i})
         IN IF Present(Rows[i].revenue_usd) THEN RatAdd(Rows[i].revenue_usd, rest) ELSE rest

Sized == ret.op = "calculate_tam_sam_som"

OneRow(revenue, score) ==
    /\ Len(Rows) = 1
    /\ Rows[1].revenue_usd = FromInt(revenue)
    /\ Rows[1].kaycore_fit_score = FromInt(score)

\* C1: calculate_tam_sam_som returns tam_usd = the revenue of all rows, sam_usd =
\* the revenue of the rows with score >= 5, som_usd = 0.15 times the revenue of the
\* rows with score >= 7, and the three partner counts = the sizes of those three
\* sets of rows; one row (100, 8) gives 100, 100, 15, 1, 1, 1.
C1_SizingSums ==
    Sized =>
        /\ ret.exc = "None"
        /\ ret.value.tam_usd = RevenueOver(AllRows)
        /\ ret.value.sam_usd = RevenueOver(ScoredAtLeast(5))
        /\ RatMul(ret.value.som_usd, FromInt(100)) = RatMul(RevenueOver(ScoredAtLeast(7)), FromInt(15))
        /\ ret.value.tam_partners = FromInt(Len(Rows))
        /\ ret.value.sam_partners = FromInt(Cardinality(ScoredAtLeast(5)))
        /\ ret.value.som_partners = FromInt(Cardinality(ScoredAtLeast(7)))
        /\ OneRow(100, 8) =>
              ret.value = [tam_usd |-> FromInt(100), sam_usd |-> FromInt(100),
                           som_usd |-> FromInt(15), tam_partners |-> FromInt(1),
                           sam_partners |-> FromInt(1), som_partners |-> FromInt(1)]

C1_Witness ==
    /\ Sized
    /\ OneRow(100, 8)
    /\ ret.value.som_usd = FromInt(15)

NonNegativeRevenue == \A i \in AllRows : Rows[i].revenue_usd.num >= 0

\* C2: when every revenue_usd is non-negative, 0 <= sam_usd <= tam_usd,
\* sam_partners <= tam_partners and som_partners <= sam_partners.
C2_SizingOrder ==
    (Sized /\ NonNegativeRevenue) =>
        /\ Leq(FromInt(0), ret.value.sam_usd)
        /\ Leq(ret.value.sam_usd, ret.value.tam_usd)
        /\ Leq(ret.value.sam_partners, ret.value.tam_partners)
        /\ Leq(ret.value.som_partners, ret.value.sam_partners)

C2_Witness ==
    /\ Sized
    /\ NonNegativeRevenue
    /\ ret.value.sam_usd # ret.value.tam_usd
    /\ ret.value.sam_usd # FromInt(0)
    /\ ret.value.som_partners # ret.value.sam_partners
    /\ ret.value.som_partners # FromInt(0)

\* the rows whose fit score is missing
Unscored == {i \in AllRows : ~Present(Rows[i].kaycore_fit_score)}

\* C10: a row whose kaycore_fit_score is missing adds nothing to sam_usd, som_usd,
\* sam_partners and som_partners (they are those of the scored rows alone), and it
\* is counted in tam_partners and its revenue in tam_usd.
C10_MissingScore ==
    Sized =>
        LET scored == AllRows \ Unscored
            fit5 == {i \in scored : Leq(FromInt(5), Rows[i].kaycore_fit_score)}
            fit7 == {i \in scored : Leq(FromInt(7), Rows[i].kaycore_fit_score)}
        IN /\ ret.value.sam_usd = RevenueOver(fit5)
           /\ ret.value.sam_partners = FromInt(Cardinality(fit5))
           /\ ret.value.som_usd = RatMul(RevenueOver(fit7), Rat(15, 100))
           /\ ret.value.som_partners = FromInt(Cardinality(fit7))
           /\ ret.value.tam_partners = FromInt(Cardinality(scored) + Cardinality(Unscored))
           /\ ret.value.tam_usd = RatAdd(RevenueOver(scored), RevenueOver(Unscored))

C10_Witness ==
    /\ Sized
    /\ Len(Rows) = 2
    /\ Rows[1].kaycore_fit_score = NaN
    /\ Rows[1].revenue_usd = FromInt(200)
    /\ Rows[2].kaycore_fit_score = FromInt(7)
    /\ Rows[2].revenue_usd = FromInt(100)
    /\ ret.value.tam_usd = FromInt(300)
    /\ ret.value.sam_usd = FromInt(100)
    /\ ret.value.tam_partners = FromInt(2)
    /\ ret.value.sam_partners = FromInt(1)

\* C8: on a table with no rows (all columns present) calculate_tam_sam_som returns
\* 0 for the three sums and the three counts, analyze_by_country returns a
\* breakdown with no rows, and neither raises.
C8_EmptyTable ==
    (Rows = <<>>) =>
        /\ Sized =>
              /\ ret.exc = "None"
              /\ \A k \in {"tam_usd", "sam_usd", "som_usd",
                           "tam_partners", "sam_partners", "som_partners"} :
                     ret.value[k] = FromInt(0)
        /\ ret.op = "analyze_by_country" =>
              /\ ret.exc = "None"
              /\ Len(ret.value) = 0

C8_Witness ==
    /\ Rows = <<>>
    /\ prev.op = "calculate_tam_sam_som"
    /\ prev.exc = "None"
    /\ prev.value.tam_usd = FromInt(0)
    /\ ret.op = "analyze_by_country"
    /\ ret.exc = "None"
    /\ ret.value = <<>>

-----------------------------------------------------------------------------
(* Properties: growth projection (checked under SpecGrowth) *)

Projected == ret.op = "project_revenue_growth"

\* n is the floor of the non-negative rational x
IsFloorOf(n, x) ==
    /\ n.den = 1
    /\ n.num * x.den <= x.num
    /\ x.num < (n.num + 1) * x.den

\* a = b * p / q, by cross-multiplication
IsTimes(a, b, p, q) == a.num * b.den * q = b.num * p * a.den

\* C3: for positive arguments project_revenue_growth returns year1_revenue =
\* target_partners * avg_deal_size, year2_revenue = year1_revenue * 1.5,
\* year3_revenue = year2_revenue * 1.3, year1_partners = target_partners,
\* year2_partners = floor(target_partners * 1.3), year3_partners =
\* floor(target_partners * 1.6), whatever the table holds; (50, 50000) gives
\* 2,500,000 / 3,750,000 / 4,875,000 and 50 / 65 / 80.
C3_GrowthProjection ==
    Projected =>
        LET target_partners == ret.args[1]
            avg_deal_size == ret.args[2]
            v == ret.value
        IN /\ ret.exc = "None"
           /\ v.year1_revenue.num * target_partners.den * avg_deal_size.den
                 = target_partners.num * avg_deal_size.num * v.year1_revenue.den
           /\ IsTimes(v.year2_revenue, v.year1_revenue, 15, 10)
           /\ IsTimes(v.year3_revenue, v.year2_revenue, 13, 10)
           /\ v.year1_partners = target_partners
           /\ IsFloorOf(v.year2_partners, [num |-> target_partners.num * 13,
                                           den |-> target_partners.den * 10])
           /\ IsFloorOf(v.year3_partners, [num |-> target_partners.num * 16,
                                           den |-> target_partners.den * 10])
           /\ (target_partners = FromInt(50) /\ avg_deal_size = FromInt(50000)) =>
                 v = [year1_revenue |-> FromInt(2500000),
                      year2_revenue |-> FromInt(3750000),
                      year3_revenue |-> FromInt(4875000),
                      year1_partners |-> FromInt(50),
                      year2_partners |-> FromInt(65),
                      year3_partners |-> FromInt(80)]

C3_Witness ==
    /\ Projected
    /\ Len(Rows) = 1
    /\ ret.args = <<FromInt(50), FromInt(50000)>>
    /\ ret.value.year3_revenue = FromInt(4875000)
    /\ ret.value.year3_partners = FromInt(80)
    /\ prev.op = "project_revenue_growth"
    /\ prev.args = <<FromInt(3), Rat(1, 2)>>
    /\ prev.value.year2_partners = FromInt(3)

-----------------------------------------------------------------------------
(* Properties: country breakdown (checked under SpecCountry) *)

Analyzed == ret.op = "analyze_by_country"

\* the country values present in the table
Countries == {Rows[i].country : i \in AllRows} \ {NA}

InCountry(c) == {i \in AllRows : Rows[i].country = c}

WithRevenue(I) == {i \in I : Present(Rows[i].revenue_usd)}

WithScore(I) == {i \in I : Present(Rows[i].kaycore_fit_score)}

RECURSIVE ScoreOver(_)
ScoreOver(I) ==
    IF I = {} THEN FromInt(0)
    ELSE LET i == CHOOSE j \in I : TRUE
         IN RatAdd(Rows[i].kaycore_fit_score, ScoreOver(I \ {i}))

HighIn(I) == {i \in I : Rows[i].partnership_priority = "High"}

\* the breakdown has exactly one row for each country value of the table
OneRowPerCountry ==
    /\ Len(ret.value) = Cardinality(Countries)
    /\ \A c \in Countries : \E i \in 1..Len(ret.value) : ret.value[i].country = c

\* r is total / n exactly (NaN when n = 0)
IsMean(r, total, n) ==
    IF n = 0 THEN r = NaN ELSE Present(r) /\ r.num * total.den * n = total.num * r.den

\* r is a multiple of 1/100 nearest to x
IsNearestCent(r, x) ==
    /\ Present(r)
    /\ 100 % r.den = 0
    /\ 200 * Abs(r.num * x.den - x.num * r.den) <= r.den * x.den

\* r is total / n rounded to 2 decimal places (NaN when n = 0)
IsRoundedMean(r, total, n) ==
    IF n = 0 THEN r = NaN ELSE IsNearestCent(r, [num |-> total.num, den |-> total.den * n])

TwoUsRows ==
    /\ Len(Rows) = 2
    /\ Rows[1] = [country |-> "US", revenue_usd |-> FromInt(100),
                  kaycore_fit_score |-> FromInt(4), partnership_priority |-> "High"]
    /\ Rows[2] = [country |-> "US", revenue_usd |-> FromInt(200),
                  kaycore_fit_score |-> FromInt(6), partnership_priority |-> "Low"]

TwoUsRowsResult ==
    <<[country |-> "US", total_revenue |-> FromInt(300), avg_revenue |-> FromInt(150),
       num_partners |-> FromInt(2), avg_fit_score |-> FromInt(5),
       high_priority_count |-> FromInt(1)]>>

NoMissingValue ==
    \A i \in AllRows : /\ Present(Rows[i].revenue_usd)
                       /\ Present(Rows[i].kaycore_fit_score)
                       /\ Rows[i].country # NA

\* C4 as stated, on tables without missing values: one row per distinct country
\* value, holding the group's revenue sum, its mean revenue, its number of rows,
\* its mean fit score and its number of "High" rows.
C4_ExactAggregates ==
    (Analyzed /\ NoMissingValue) =>
        /\ ret.exc = "None"
        /\ OneRowPerCountry
        /\ \A i \in 1..Len(ret.value) :
              LET g == InCountry(ret.value[i].country)
              IN /\ ret.value[i].total_revenue = RevenueOver(g)
                 /\ IsMean(ret.value[i].avg_revenue, RevenueOver(g),
                           Cardinality(WithRevenue(g)))
                 /\ ret.value[i].num_partners = FromInt(Cardinality(g))
                 /\ IsMean(ret.value[i].avg_fit_score, ScoreOver(WithScore(g)),
                           Cardinality(WithScore(g)))
                 /\ ret.value[i].high_priority_count = FromInt(Cardinality(HighIn(g)))

\* C4 amended: one row per distinct non-missing country value, holding the group's
\* revenue sum rounded to 2 decimals, its mean revenue rounded to 2 decimals, its
\* number of rows with a revenue, its mean fit score rounded to 2 decimals and its
\* number of "High" rows; sums and means skip missing values, a mean of none is
\* NaN; two "US" rows (100, 4, High), (200, 6, Low) give 300, 150, 2, 5, 1.
C4_RoundedAggregates ==
    Analyzed =>
        /\ ret.exc = "None"
        /\ OneRowPerCountry
        /\ \A i \in 1..Len(ret.value) :
              LET g == InCountry(ret.value[i].country)
              IN /\ IsNearestCent(ret.value[i].total_revenue, RevenueOver(g))
                 /\ IsRoundedMean(ret.value[i].avg_revenue, RevenueOver(g),
                                  Cardinality(WithRevenue(g)))
                 /\ ret.value[i].num_partners = FromInt(Cardinality(WithRevenue(g)))
                 /\ IsRoundedMean(ret.value[i].avg_fit_score, ScoreOver(WithScore(g)),
                                  Cardinality(WithScore(g)))
                 /\ ret.value[i].high_priority_count = FromInt(Cardinality(HighIn(g)))
        /\ TwoUsRows => ret.value = TwoUsRowsResult

\* a run in which the rounding shows: the mean revenue of 100 and 100.01 is 100.005
C4_Witness ==
    /\ Analyzed
    /\ Len(Rows) = 2
    /\ Rows[1].country = "US"
    /\ Rows[2].country = "US"
    /\ Rows[1].revenue_usd = FromInt(100)
    /\ Rows[2].revenue_usd = Rat(10001, 100)
    /\ Len(ret.value) = 1
    /\ ret.value[1].total_revenue = Rat(20001, 100)
    /\ ret.value[1].avg_revenue = FromInt(100)

\* the two-row example of the country breakdown
C4_ExampleReached == Analyzed /\ TwoUsRows /\ ret.value = TwoUsRowsResult

-----------------------------------------------------------------------------
(* Properties: the report (checked under Spec) *)

Reported == ret.op = "generate_report" /\ ret.exc = "None"

Aborted == ret.op = "generate_report" /\ ret.exc # "None"

FileOrder == <<SizingFile, GrowthFile, CountryFile>>

\* the file holds, after its header line, the entries of the record d, one a line
HoldsEntries(file, d, keys) ==
    /\ file.state = "written"
    /\ Len(file.data) = Len(keys) + 1
    /\ \A i \in 1..Len(keys) : file.data[i + 1] = <<keys[i], d[keys[i]]>>

\* the file holds, after its header line, the rows of the breakdown, one a line
HoldsBreakdown(file, stats) ==
    /\ file.state = "written"
    /\ Len(file.data) = Len(stats) + 1
    /\ \A i \in 1..Len(stats) :
          file.data[i + 1] = <<stats[i].country, stats[i].total_revenue,
                               stats[i].avg_revenue, stats[i].num_partners,
                               stats[i].avg_fit_score, stats[i].high_priority_count>>

DefaultProjection ==
    [year1_revenue |-> FromInt(2500000), year2_revenue |-> FromInt(3750000),
     year3_revenue |-> FromInt(4875000), year1_partners |-> FromInt(50),
     year2_partners |-> FromInt(65), year3_partners |-> FromInt(80)]

\* C5: a report that returns holds the market sizing, the growth projection of
\* (50, 50000) and the country breakdown of the table, and each of the three
\* artifacts has been written, whatever was there before, and holds the
\* corresponding result.
C5_ReportAndArtifacts ==
    Reported =>
        /\ DOMAIN files = FileNames
        /\ ret.value.market_sizing = calculate_tam_sam_som(df)
        /\ ret.value.growth_projection = DefaultProjection
        /\ ret.value.country_breakdown = analyze_by_country(df)
        /\ HoldsEntries(files[SizingFile], ret.value.market_sizing, SizingKeys)
        /\ HoldsEntries(files[GrowthFile], ret.value.growth_projection, GrowthKeys)
        /\ HoldsBreakdown(files[CountryFile], ret.value.country_breakdown)

\* a report that succeeds after a run that failed half way
C5_Witness ==
    /\ Reported
    /\ prev.op = "generate_report"
    /\ prev.exc = "OSError"
    /\ Len(Rows) = 2
    /\ Len(ret.value.country_breakdown) = 2
    /\ Len(files[CountryFile].data) = 3

\* C6 as stated: a report that is aborted has written or changed none of the three
\* artifacts, and returns nothing.
C6_NothingPersisted ==
    [][(ret'.op = "generate_report" /\ ret'.exc # "None") =>
          (ret'.value = <<>> /\ files' = files)]_vars

\* the artifact this run writes to the k-th file
ArtifactOf(k) ==
    CASE k = 1 -> series_to_csv(calculate_tam_sam_som(df), SizingKeys)
      [] k = 2 -> series_to_csv(DefaultProjection, GrowthKeys)
      [] k = 3 -> frame_to_csv(analyze_by_country(df))

\* C6 amended: a report that is aborted returns nothing; aborted before the first
\* write (a missing column) it leaves the three artifacts untouched; aborted by
\* the failure of its k-th write it leaves the artifacts before the k-th written
\* with this run's results, the k-th untouched or incomplete, and the later
\* ones untouched.
C6_EarlierArtifactsPersist ==
    [][(ret'.op = "generate_report" /\ ret'.exc # "None") =>
          /\ ret'.value = <<>>
          /\ ret'.exc \in {"KeyError", "OSError"}
          /\ ret'.exc = "KeyError" => files' = files
          /\ ret'.exc = "OSError" =>
                \E k \in 1..3 :
                    /\ \A j \in 1..(k - 1) :
                          files'[FileOrder[j]] = [state |-> "written", data |-> ArtifactOf(j)]
                    /\ \/ files'[FileOrder[k]] = files[FileOrder[k]]
                       \/ files'[FileOrder[k]].state = "partial"
                    /\ \A j \in (k + 1)..3 : files'[FileOrder[j]] = files[FileOrder[j]]]_vars

\* the first run fails in its second write: the first artifact stays
C6_Witness ==
    /\ Aborted
    /\ ret.exc = "OSError"
    /\ prev = NoCall
    /\ Len(Rows) = 1
    /\ files[SizingFile].state = "written"
    /\ files[GrowthFile].state = "partial"
    /\ files[CountryFile].state = "stale"

MissingColumn == ~(RequiredColumns \subseteq df.columns)

\* C7: on a table that lacks a required column the report raises before any
\* artifact is written and returns nothing.
C7_MissingColumnFails ==
    MissingColumn =>
        /\ ret.op = "generate_report" => (ret.exc = "KeyError" /\ ret.value = <<>>)
        /\ \A n \in FileNames : files[n].state \in {"absent", "stale"}

C7_Witness ==
    /\ df.columns = RequiredColumns \ {"partnership_priority"}
    /\ Len(Rows) = 2
    /\ Aborted
    /\ ret.exc = "KeyError"
    /\ ret.value = <<>>
    /\ files = NoFiles

\* C9: no run changes the table, and a report that returns right after a report
\* that returned gives the same report and leaves the three artifacts as they were.
C9_Idempotent ==
    [][/\ df' = df
       /\ (Reported /\ ret'.op = "generate_report" /\ ret'.exc = "None") =>
             (ret'.value = ret.value /\ files' = files)]_vars

C9_Witness ==
    /\ Reported
    /\ prev.op = "generate_report"
    /\ prev.exc = "None"
    /\ prev.value = ret.value
    /\ Len(Rows) = 2
    /\ Rows[1].country = "DE"
    /\ Rows[2].country = "US"
    /\ files[CountryFile].state = "written"

====
